---------------------------- MODULE Spec2Model ----------------------------
(***************************************************************************)
(* The Fossibot register-protocol client (src/ble/ble_client.cpp,          *)
(* src/ble/fossibot_protocol.h) as it is driven by the firmware            *)
(* (src/main.cpp, src/ui/ui_manager.cpp).                                  *)
(*                                                                         *)
(* Two execution contexts are modelled.  The loop task runs setup() and    *)
(* then loop(): initBLE(), update(), the copy of the telemetry into the UI *)
(* and the toggle handler.  A connection attempt blocks the loop task in   *)
(* the transport's calls; `pc` is the call it is blocked in, and one       *)
(* action is the return of that call together with the code up to the next *)
(* blocking call.  The transport's task runs the callbacks onConnect,      *)
(* onDisconnect and notifyCallback, which interleave with the loop task.   *)
(*                                                                         *)
(* Time is millis(), a 32-bit counter, observed every TickMs.  loop() has  *)
(* a period of about 10 ms and a transport connect times out after 10 s,   *)
(* so the loop task runs at least once per TickMs unless it is blocked,    *)
(* and a blocking connect call spans at most one TickMs (`budget`).        *)
(*                                                                         *)
(* Floats of the telemetry are held as scaled integers: batteryPercent in  *)
(* tenths of a percent, batteryVoltage in hundredths of a volt.            *)
(***************************************************************************)
EXTENDS Integers, Sequences, FiniteSets, TLC

(***************************************************************************)
(* Program constants                                                       *)
(***************************************************************************)
MAX_FAILURES == 5

\* millis() is a 32-bit count of milliseconds.  The model holds every time in
\* units of 8 ms, so that the wrap-around 2^32 ms is a number TLC represents;
\* every time of the model is a multiple of 8 ms.
Ms(n) == n \div 8

BASE_RETRY_MS == Ms(60000)

POLL_INTERVAL == Ms(30000)

SETTINGS_POLL_INTERVAL == Ms(60000)

OPCODE_STATUS == 4356

OPCODE_SETTINGS == 4355

USB_BIT == 512

DC_BIT == 1024

AC_BIT == 2048

USB_TOGGLE == 24

DC_TOGGLE == 25

AC_TOGGLE == 26

CRC_POLY == 40961

\* ControlReg: the registers the setters write
LIGHT_MODE == 27

SCREEN_TIMEOUT == 59

AC_STANDBY == 60

DC_STANDBY == 61

USB_STANDBY == 62

SCHEDULE_CHARGE == 63

DISCHARGE_LIMIT == 66

CHARGE_LIMIT == 67

SYS_STANDBY == 68

\* the thresholds FossibotBLE() gives hasSignificantChange(): percent, watts
_socThreshold == 1

_powerThreshold == 5

CRC_SEED == 65535

\* 2^32 ms
MillisMod == 536870912

(***************************************************************************)
(* Bounds of the model                                                     *)
(***************************************************************************)
\* millis() is followed for MaxTicks observations
MaxTicks == 26

\* time between two observations of millis()
TickMs == SETTINGS_POLL_INTERVAL

MaxNow == MaxTicks * TickMs

\* the same clock observed more often, for MaxFineTicks observations
MaxFineTicks == 13

FineTickMs == Ms(10000)

MaxFineNow == MaxFineTicks * FineTickMs

\* the clock is followed across its wrap-around for MaxWrapTicks observations
MaxWrapTicks == 14

(***************************************************************************)
(* Arithmetic of the code                                                  *)
(***************************************************************************)
Min(a, b) == IF a < b THEN a ELSE b

RECURSIVE Pow2(_)
Pow2(n) == IF n = 0 THEN 1 ELSE 2 * Pow2(n - 1)

\* a ^ b on unsigned integers
RECURSIVE BitXor(_, _)
BitXor(a, b) ==
    IF a = 0 THEN b
    ELSE IF b = 0 THEN a
    ELSE ((a + b) % 2) + 2 * BitXor(a \div 2, b \div 2)

\* a & mask, mask a single bit
BitSet(a, bit) == (a \div bit) % 2 = 1

\* a difference of the two counter values taken as signed numbers
Elapsed_Signed(t, last) == t - last

\* unsigned long difference millis() - last
Elapsed(t, last) == (t - last) % MillisMod

\* a backoff that keeps doubling with the counter
RetryInterval_Unbounded(cf) == BASE_RETRY_MS * Pow2(cf)

\* 60000 * (1 << min(consecutiveFailures, 2))
RetryInterval(cf) == BASE_RETRY_MS * Pow2(Min(cf, 2))

\* a give-up test that lets one more attempt through
GivenUp_OffByOne(cf) == cf > MAX_FAILURES

\* if (consecutiveFailures >= MAX_FAILURES) return;
GivenUp(cf) == cf >= MAX_FAILURES

\* a retry test that lets the attempt through at the interval itself
RetryDue_AtInterval(t, last, cf) == Elapsed(t, last) >= RetryInterval(cf)

\* if (millis() - lastReconnectAttempt > retryInterval)
RetryDue(t, last, cf) == Elapsed(t, last) > RetryInterval(cf)

\* a status poll that fires after half its interval
StatusPollDue_TooEarly(t, last) == Elapsed(t, last) >= POLL_INTERVAL \div 2

\* if (now - _lastPoll >= POLL_INTERVAL)
StatusPollDue(t, last) == Elapsed(t, last) >= POLL_INTERVAL

\* if (now - _lastSettingsPoll >= SETTINGS_POLL_INTERVAL)
SettingsPollDue(t, last) == Elapsed(t, last) >= SETTINGS_POLL_INTERVAL

(***************************************************************************)
(* Outbound frames                                                         *)
(***************************************************************************)
\* the inner loop of the CRC: j rounds of
\* if (crc & 1) crc = (crc >> 1) ^ 0xA001; else crc >>= 1;
RECURSIVE CrcBits(_, _)
CrcBits(crc, j) ==
    IF j = 0 THEN crc
    ELSE IF crc % 2 = 1 THEN CrcBits(BitXor(crc \div 2, CRC_POLY), j - 1)
    ELSE CrcBits(crc \div 2, j - 1)

\* CRC-16 Modbus over payload[i..]
RECURSIVE CrcFrom(_, _, _)
CrcFrom(crc, payload, i) ==
    IF i > Len(payload) THEN crc
    ELSE CrcFrom(CrcBits(BitXor(crc, payload[i]), 8), payload, i + 1)

Crc16(payload) == CrcFrom(CRC_SEED, payload, 1)

\* a frame with the CRC low byte first
Frame_CrcLowFirst(payload) ==
    payload \o << Crc16(payload) % 256, (Crc16(payload) \div 256) % 256 >>

\* command[0..5] = payload, command[6] = crc >> 8, command[7] = crc & 0xFF
Frame(payload) ==
    payload \o << (Crc16(payload) \div 256) % 256, Crc16(payload) % 256 >>

StatusFrame == Frame(<< 17, 4, 0, 0, 0, 80 >>)

SettingsFrame == Frame(<< 17, 3, 0, 0, 0, 80 >>)

\* a command with the value low byte first
CommandFrame_ValueSwapped(reg, value) ==
    Frame(<< 17, 6, 0, reg % 256, value % 256, (value \div 256) % 256 >>)

\* sendCommand(reg, value): reg a uint8_t, value a uint16_t
CommandFrame(reg, value) ==
    Frame(<< 17, 6, 0, reg % 256, (value \div 256) % 256, value % 256 >>)

(***************************************************************************)
(* Inbound notifications                                                   *)
(***************************************************************************)
\* a lookup that also gives up a register ending on the last byte
GetRegValue_StrictBound(data, regIndex) ==
    LET offset == (6 + regIndex * 2) % 65536
    IN  IF offset + 2 >= Len(data) THEN 0
        ELSE (data[offset + 1] * 256 + data[offset + 2]) % 65536

\* the positions data[..] of the code that getRegValue(regIndex) reads
RegReads(data, regIndex) ==
    LET offset == (6 + regIndex * 2) % 65536
    IN  IF offset + 1 >= Len(data) THEN { } ELSE { offset, offset + 1 }

\* getRegValue(regIndex) of parseStatusData() and parseSettingsData(): data is
\* the payload, data[i] of the code being data[i + 1] here; offset a uint16_t
GetRegValue(data, regIndex) ==
    LET offset == (6 + regIndex * 2) % 65536
    IN  IF offset + 1 >= Len(data) THEN 0
        ELSE (data[offset + 1] * 256 + data[offset + 2]) % 65536

\* uint16_t opcode = (data[0] << 8) | data[1]
Opcode(data) == (data[1] * 256 + data[2]) % 65536

Abs(x) == IF x < 0 THEN -x ELSE x

\* a detector without the test for the first data
HasSignificantChange_NoFirstData(d, socThreshold, powerThreshold) ==
    \/ Abs(d.batteryPercent - d.lastBatteryPercent) >= 10 * socThreshold
    \/ Abs(d.inputPower - d.lastInputPower) >= powerThreshold
    \/ Abs(d.outputPower - d.lastOutputPower) >= powerThreshold

\* PowerBankData::hasSignificantChange(socThreshold, powerThreshold); the
\* percents of d are held in tenths and the thresholds are ints
HasSignificantChange(d, socThreshold, powerThreshold) ==
    IF d.lastBatteryPercent < 0 THEN TRUE
    ELSE \/ Abs(d.batteryPercent - d.lastBatteryPercent) >= 10 * socThreshold
         \/ Abs(d.inputPower - d.lastInputPower) >= powerThreshold
         \/ Abs(d.outputPower - d.lastOutputPower) >= powerThreshold

\* PowerBankData::markRefreshed()
MarkRefreshed(d) ==
    [d EXCEPT !.lastBatteryPercent = d.batteryPercent,
              !.lastInputPower = d.inputPower,
              !.lastOutputPower = d.outputPower]

\* a decoder that takes the output power from register 20
StatusWrite_OutputFromReg20(d, data, k) ==
    CASE k = 1 -> [d EXCEPT !.acInputPower = GetRegValue(data, 3)]
      [] k = 2 -> [d EXCEPT !.dcInputPower = GetRegValue(data, 4)]
      [] k = 3 -> [d EXCEPT !.inputPower = GetRegValue(data, 6)]
      [] k = 4 -> [d EXCEPT !.outputPower = GetRegValue(data, 20)]
      [] k = 5 -> [d EXCEPT !.batteryVoltage = GetRegValue(data, 22)]
      [] k = 6 -> [d EXCEPT !.batteryPercent = GetRegValue(data, 56)]
      [] k = 7 -> [d EXCEPT !.usbActive = BitSet(GetRegValue(data, 41), USB_BIT)]
      [] k = 8 -> [d EXCEPT !.dcActive = BitSet(GetRegValue(data, 41), DC_BIT)]
      [] k = 9 -> [d EXCEPT !.acActive = BitSet(GetRegValue(data, 41), AC_BIT)]
      [] k = 10 -> [d EXCEPT !.minutesToFull = GetRegValue(data, 58)]
      [] k = 11 -> [d EXCEPT !.minutesToEmpty = GetRegValue(data, 59)]

\* the k-th assignment of parseStatusData(); batteryVoltage is held in
\* hundredths of a volt and batteryPercent in tenths of a percent
StatusWrite(d, data, k) ==
    CASE k = 1 -> [d EXCEPT !.acInputPower = GetRegValue(data, 3)]
      [] k = 2 -> [d EXCEPT !.dcInputPower = GetRegValue(data, 4)]
      [] k = 3 -> [d EXCEPT !.inputPower = GetRegValue(data, 6)]
      [] k = 4 -> [d EXCEPT !.outputPower = GetRegValue(data, 39)]
      [] k = 5 -> [d EXCEPT !.batteryVoltage = GetRegValue(data, 22)]
      [] k = 6 -> [d EXCEPT !.batteryPercent = GetRegValue(data, 56)]
      [] k = 7 -> [d EXCEPT !.usbActive = BitSet(GetRegValue(data, 41), USB_BIT)]
      [] k = 8 -> [d EXCEPT !.dcActive = BitSet(GetRegValue(data, 41), DC_BIT)]
      [] k = 9 -> [d EXCEPT !.acActive = BitSet(GetRegValue(data, 41), AC_BIT)]
      [] k = 10 -> [d EXCEPT !.minutesToFull = GetRegValue(data, 58)]
      [] k = 11 -> [d EXCEPT !.minutesToEmpty = GetRegValue(data, 59)]

StatusWrites == 11

\* a decoder that leaves settingsReceived as it was
SettingsWrite_NoFlag(d, data, k) ==
    CASE k = 1 -> [d EXCEPT !.lightMode = GetRegValue(data, 27)]
      [] k = 2 -> [d EXCEPT !.buzzerEnabled = (GetRegValue(data, 56) = 1)]
      [] k = 3 -> [d EXCEPT !.silentCharging = (GetRegValue(data, 57) = 1)]
      [] k = 4 -> [d EXCEPT !.screenTimeout = GetRegValue(data, 59)]
      [] k = 5 -> [d EXCEPT !.acStandby = GetRegValue(data, 60)]
      [] k = 6 -> [d EXCEPT !.dcStandby = GetRegValue(data, 61)]
      [] k = 7 -> [d EXCEPT !.usbStandby = GetRegValue(data, 62)]
      [] k = 8 -> [d EXCEPT !.scheduleCharge = GetRegValue(data, 63)]
      [] k = 9 -> [d EXCEPT !.dischargeLimit = GetRegValue(data, 66) \div 10]
      [] k = 10 -> [d EXCEPT !.chargeLimit = GetRegValue(data, 67) \div 10]
      [] k = 11 -> [d EXCEPT !.sysStandby = GetRegValue(data, 68)]
      [] k = 12 -> d

\* a settings decoder that takes register 56 for the state of charge as the
\* status decoder does
SettingsWrite_PercentFromReg56(d, data, k) ==
    CASE k = 1 -> [d EXCEPT !.lightMode = GetRegValue(data, 27)]
      [] k = 2 -> [d EXCEPT !.buzzerEnabled = (GetRegValue(data, 56) = 1),
                            !.batteryPercent = GetRegValue(data, 56)]
      [] k = 3 -> [d EXCEPT !.silentCharging = (GetRegValue(data, 57) = 1)]
      [] k = 4 -> [d EXCEPT !.screenTimeout = GetRegValue(data, 59)]
      [] k = 5 -> [d EXCEPT !.acStandby = GetRegValue(data, 60)]
      [] k = 6 -> [d EXCEPT !.dcStandby = GetRegValue(data, 61)]
      [] k = 7 -> [d EXCEPT !.usbStandby = GetRegValue(data, 62)]
      [] k = 8 -> [d EXCEPT !.scheduleCharge = GetRegValue(data, 63)]
      [] k = 9 -> [d EXCEPT !.dischargeLimit = GetRegValue(data, 66) \div 10]
      [] k = 10 -> [d EXCEPT !.chargeLimit = GetRegValue(data, 67) \div 10]
      [] k = 11 -> [d EXCEPT !.sysStandby = GetRegValue(data, 68)]
      [] k = 12 -> [d EXCEPT !.settingsReceived = TRUE]

\* the k-th assignment of parseSettingsData()
SettingsWrite(d, data, k) ==
    CASE k = 1 -> [d EXCEPT !.lightMode = GetRegValue(data, 27)]
      [] k = 2 -> [d EXCEPT !.buzzerEnabled = (GetRegValue(data, 56) = 1)]
      [] k = 3 -> [d EXCEPT !.silentCharging = (GetRegValue(data, 57) = 1)]
      [] k = 4 -> [d EXCEPT !.screenTimeout = GetRegValue(data, 59)]
      [] k = 5 -> [d EXCEPT !.acStandby = GetRegValue(data, 60)]
      [] k = 6 -> [d EXCEPT !.dcStandby = GetRegValue(data, 61)]
      [] k = 7 -> [d EXCEPT !.usbStandby = GetRegValue(data, 62)]
      [] k = 8 -> [d EXCEPT !.scheduleCharge = GetRegValue(data, 63)]
      [] k = 9 -> [d EXCEPT !.dischargeLimit = GetRegValue(data, 66) \div 10]
      [] k = 10 -> [d EXCEPT !.chargeLimit = GetRegValue(data, 67) \div 10]
      [] k = 11 -> [d EXCEPT !.sysStandby = GetRegValue(data, 68)]
      [] k = 12 -> [d EXCEPT !.settingsReceived = TRUE]

SettingsWrites == 12

\* the assignments k.. of a parse function, in order
RECURSIVE StatusFrom(_, _, _)
StatusFrom(d, data, k) ==
    IF k > StatusWrites THEN d
    ELSE StatusFrom(StatusWrite(d, data, k), data, k + 1)

RECURSIVE SettingsFrom(_, _, _)
SettingsFrom(d, data, k) ==
    IF k > SettingsWrites THEN d
    ELSE SettingsFrom(SettingsWrite(d, data, k), data, k + 1)

\* a decoder that also takes the snapshot of the change detector
ParseStatusData_MarksRefreshed(d, data) ==
    IF Len(data) < 10 THEN d ELSE MarkRefreshed(StatusFrom(d, data, 1))

\* parseStatusData(data, length)
ParseStatusData(d, data) ==
    IF Len(data) < 10 THEN d ELSE StatusFrom(d, data, 1)

\* parseSettingsData(data, length)
ParseSettingsData(d, data) ==
    IF Len(data) < 10 THEN d ELSE SettingsFrom(d, data, 1)

\* a callback whose parse functions do not test the length
Dispatch_NoLengthCheck(data) ==
    IF Len(data) < 2 THEN "none"
    ELSE IF Opcode(data) = OPCODE_STATUS THEN "status"
    ELSE IF Opcode(data) = OPCODE_SETTINGS THEN "settings"
    ELSE "none"

\* a callback that decodes every other opcode as a status
Dispatch_OtherAsStatus(data) ==
    IF Len(data) < 2 THEN "none"
    ELSE IF Opcode(data) = OPCODE_SETTINGS
         THEN (IF Len(data) < 10 THEN "none" ELSE "settings")
    ELSE (IF Len(data) < 10 THEN "none" ELSE "status")

\* which parse function notifyCallback() calls, and whether it writes
Dispatch(data) ==
    IF Len(data) < 2 THEN "none"
    ELSE IF Opcode(data) = OPCODE_STATUS
         THEN (IF Len(data) < 10 THEN "none" ELSE "status")
    ELSE IF Opcode(data) = OPCODE_SETTINGS
         THEN (IF Len(data) < 10 THEN "none" ELSE "settings")
    ELSE "none"

(***************************************************************************)
(* The notifications the peer sends in the model                           *)
(***************************************************************************)
\* a payload of len bytes: opcode, four header bytes, then the registers
Payload(opcode, len, regs) ==
    [ i \in 1..len |->
        IF i = 1 THEN opcode \div 256
        ELSE IF i = 2 THEN opcode % 256
        ELSE IF i <= 6 THEN 0
        ELSE IF (i - 7) % 2 = 0 THEN regs[(i - 7) \div 2] \div 256
        ELSE regs[(i - 7) \div 2] % 256 ]

\* registers held by a response
Registers == 0..79

FullLength == 6 + 2 * Cardinality(Registers)

RegsStatusA ==
    [ r \in Registers |->
        CASE r = 3 -> 120 [] r = 4 -> 80 [] r = 6 -> 200 [] r = 20 -> 333
          [] r = 39 -> 150 [] r = 22 -> 4900 [] r = 56 -> 875
          [] r = 41 -> USB_BIT + AC_BIT [] r = 58 -> 90 [] r = 59 -> 45
          [] OTHER -> 0 ]

RegsSettingsA ==
    [ r \in Registers |->
        CASE r = 27 -> 2 [] r = 56 -> 0 [] r = 57 -> 1 [] r = 59 -> 30
          [] r = 60 -> 10 [] r = 61 -> 20 [] r = 62 -> 600 [] r = 63 -> 15
          [] r = 66 -> 105 [] r = 67 -> 805 [] r = 68 -> 7
          [] OTHER -> 0 ]

StatusA == Payload(OPCODE_STATUS, FullLength, RegsStatusA)

SettingsA == Payload(OPCODE_SETTINGS, FullLength, RegsSettingsA)

\* a status response cut to 9 bytes
ShortStatus == Payload(OPCODE_STATUS, 9, RegsStatusA)

\* a settings response cut to 9 bytes
ShortSettings == Payload(OPCODE_SETTINGS, 9, RegsSettingsA)

\* the first byte alone
OneByte == Payload(OPCODE_STATUS, 1, RegsStatusA)

\* an echo of a write-single command: opcode 0x1106
UnknownOpcode == Payload(4358, 10, RegsStatusA)

\* a full-length notification of opcode 0x1204
OtherOpcode == Payload(4612, FullLength, RegsStatusA)

\* a status response cut inside register 56, and one cut right after it
StatusCutIn56 == Payload(OPCODE_STATUS, 6 + 2 * 56 + 1, RegsStatusA)

StatusCutAfter56 == Payload(OPCODE_STATUS, 6 + 2 * 56 + 2, RegsStatusA)

\* a settings response cut inside register 66
SettingsCutIn66 == Payload(OPCODE_SETTINGS, 6 + 2 * 66 + 1, RegsSettingsA)

\* the registers of a status with the given state of charge (in tenths of
\* a percent), total input and output watts and output bitmask
StatusRegs(soc, inW, outW, states) ==
    [ r \in Registers |->
        CASE r = 3 -> 120 [] r = 4 -> 80 [] r = 6 -> inW [] r = 20 -> 333
          [] r = 39 -> outW [] r = 22 -> 4900 [] r = 56 -> soc
          [] r = 41 -> states [] r = 58 -> 90 [] r = 59 -> 45
          [] OTHER -> 0 ]

\* statuses that differ from the first in one reading: the state of charge
\* by 0.1, 1 and 43.5 percent, a power by 2, 5 and 6 W, or the outputs
SampleStatusRegs ==
    { StatusRegs(440, 200, 150, 0) }
        \cup { StatusRegs(soc, 200, 150, 0) : soc \in { 441, 450, 875 } }
        \cup { StatusRegs(440, inW, 150, 0) : inW \in { 202, 205, 206 } }
        \cup { StatusRegs(440, 200, outW, 0) : outW \in { 152, 155, 156 } }
        \cup { StatusRegs(440, 200, 150, states) :
                   states \in { USB_BIT, DC_BIT, AC_BIT, 65535 } }

SampleNotifications ==
    { Payload(OPCODE_STATUS, FullLength, regs) : regs \in SampleStatusRegs }
        \cup { SettingsA, ShortStatus, OtherOpcode }

Payloads ==
    { StatusA, SettingsA, ShortStatus, ShortSettings, OneByte, UnknownOpcode,
      OtherOpcode, StatusCutIn56, StatusCutAfter56, SettingsCutIn66 }

(***************************************************************************)
(* State                                                                   *)
(***************************************************************************)
VARIABLES
    \* FossibotBLE
    _initialized,           \* init() has run
    targetSet,              \* _targetMAC.length() > 0
    _client,                \* the NimBLE client has been created
    _service,               \* cached handles, Null or a handle
    _writeChar,
    _notifyChar,
    _connected,
    _data,                  \* Fossibot::PowerBankData
    _lastPoll,
    _lastSettingsPoll,
    lastReconnectAttempt,   \* statics of update()
    consecutiveFailures,
    \* UIManager
    observed,               \* the telemetry loop() read through getData()
    uiSel,                  \* the output whose toggle was touched
    \* transport and clock
    now,                    \* millis()
    linkUp,                 \* NimBLEClient::isConnected()
    subscribed,             \* the peer notifies this client
    \* loop task
    pc,                     \* where the loop task is
    caller,                 \* who called connectToDevice()
    budget,                 \* observations of millis() before the task acts
    \* transport task
    rx,                     \* the notification being decoded, or the one
                            \* notifyCallback() last returned from
    \* history
    sent,                   \* the frames the last step passed to writeValue()
    issued,                 \* << reg, value >> the last step gave sendCommand()
    attemptResult,          \* what connectToDevice() returned in the last step
    called,                 \* the function applied by the last step, if it was
                            \* applied outside loop() and the callbacks
    args,                   \* the int arguments it was given
    statusAt,               \* millis() of the last status request update() wrote
    settingsAt,             \* millis() of the last settings request it wrote
    connectedAt,            \* millis() when the present connection was made
    observing,              \* whether the three times above are recorded
    rendered,               \* the telemetry at the last markRefreshed(), in
                            \* a set that is empty before the first call
    statusDecoded,          \* parseStatusData() has run to its end
    connecting              \* calls of connectToDevice() that have not returned

handles == << _service, _writeChar, _notifyChar >>

timers == << _lastPoll, _lastSettingsPoll >>

retryState == << lastReconnectAttempt, consecutiveFailures >>

config == << _initialized, targetSet >>

uiState == << observed, uiSel >>

pollLog == << statusAt, settingsAt, connectedAt, observing >>

renderLog == << rendered, statusDecoded >>

vars == << _initialized, targetSet, _client, _service, _writeChar, _notifyChar,
           _connected, _data, _lastPoll, _lastSettingsPoll,
           lastReconnectAttempt, consecutiveFailures, observed, uiSel, now,
           linkUp, subscribed, pc, caller, budget, rx, sent,
           issued, attemptResult, called, args, statusAt, settingsAt, connectedAt,
           observing, rendered, statusDecoded, connecting >>

Null == "null"

\* the value of a history variable before the event it records
Never == -1

\* a history variable v after an event at time t
Recorded(v, t) == IF observing THEN t ELSE v

Outputs == { "usb", "dc", "ac" }

\* the defaults of struct PowerBankData
InitData ==
    [ connected |-> FALSE,
      batteryPercent |-> 0, batteryVoltage |-> 0,
      inputPower |-> 0, outputPower |-> 0,
      acInputPower |-> 0, dcInputPower |-> 0,
      usbActive |-> FALSE, dcActive |-> FALSE, acActive |-> FALSE,
      minutesToFull |-> -1, minutesToEmpty |-> -1,
      settingsReceived |-> FALSE,
      buzzerEnabled |-> TRUE, silentCharging |-> FALSE,
      lightMode |-> 0, dischargeLimit |-> 0, chargeLimit |-> 100,
      screenTimeout |-> 60, sysStandby |-> 5, acStandby |-> 60,
      dcStandby |-> 60, usbStandby |-> 300, scheduleCharge |-> 0,
      lastBatteryPercent |-> -10, lastInputPower |-> -1,
      lastOutputPower |-> -1 ]

RxIdle == [ kind |-> "idle", payload |-> << >>, step |-> 0 ]

\* the state after new FossibotBLE() in initBLE(), statics zero-initialised
Constructed ==
    /\ _initialized = FALSE
    /\ targetSet = FALSE
    /\ _client = FALSE
    /\ _service = Null
    /\ _writeChar = Null
    /\ _notifyChar = Null
    /\ _connected = FALSE
    /\ _data = InitData
    /\ _lastPoll = 0
    /\ _lastSettingsPoll = 0
    /\ lastReconnectAttempt = 0
    /\ consecutiveFailures = 0
    /\ observed = InitData
    /\ uiSel = "none"
    /\ now = 0
    /\ linkUp = FALSE
    /\ subscribed = FALSE
    /\ pc = "boot"
    /\ caller = "none"
    /\ budget = 0
    /\ rx = RxIdle
    /\ sent = << >>
    /\ issued = << >>
    /\ attemptResult = "none"
    /\ called = "none"
    /\ args = << >>
    /\ statusAt = Never
    /\ settingsAt = Never
    /\ connectedAt = Never
    /\ rendered = { }
    /\ statusDecoded = FALSE
    /\ connecting = 0

\* the times of requests and connections are not recorded
Init == Constructed /\ observing = FALSE

\* the same state, with the times recorded
InitObserved == Constructed /\ observing = TRUE

\* the clock value, 35 s before the counter wraps, at which the window of
\* SpecWrap opens
WrapOrigin == MillisMod - 3 * FineTickMs - FineTickMs \div 2

\* the time that has passed since WrapOrigin at clock value t, for clock
\* values up to one turn of the counter after it
SinceOrigin(t) ==
    IF t >= WrapOrigin THEN t - WrapOrigin ELSE t + (MillisMod - WrapOrigin)

\* 49.7 days after boot: update() reconnected by an attempt it started at
\* WrapOrigin, and one tick later sent both polls; no response has come
InitWrap ==
    /\ _initialized = TRUE
    /\ targetSet = TRUE
    /\ _client = TRUE
    /\ _service = "service"
    /\ _writeChar = "writeChar"
    /\ _notifyChar = "notifyChar"
    /\ _connected = TRUE
    /\ _data = [InitData EXCEPT !.connected = TRUE]
    /\ _lastPoll = WrapOrigin + FineTickMs
    /\ _lastSettingsPoll = WrapOrigin + FineTickMs
    /\ lastReconnectAttempt = WrapOrigin
    /\ consecutiveFailures = 0
    /\ observed = [InitData EXCEPT !.connected = TRUE]
    /\ uiSel = "none"
    /\ now = WrapOrigin + FineTickMs
    /\ linkUp = TRUE
    /\ subscribed = TRUE
    /\ pc = "idle"
    /\ caller = "none"
    /\ budget = 1
    /\ rx = RxIdle
    /\ sent = << StatusFrame, SettingsFrame >>
    /\ issued = << >>
    /\ attemptResult = "none"
    /\ called = "none"
    /\ args = << >>
    /\ statusAt = WrapOrigin + FineTickMs
    /\ settingsAt = WrapOrigin + FineTickMs
    /\ connectedAt = WrapOrigin
    /\ observing = TRUE
    /\ rendered = { }
    /\ statusDecoded = FALSE
    /\ connecting = 0

(***************************************************************************)
(* Pieces of the client's code shared by its operations                    *)
(***************************************************************************)
\* a write that is not guarded by the connection state
CanWrite_Always(c, w) == TRUE

\* if (!_connected || !_writeChar) return;
CanWrite(c, w) == c /\ w # Null

\* requestStatusData(): the frames it passes to writeValue()
RequestStatusData(c, w) == IF CanWrite(c, w) THEN << StatusFrame >> ELSE << >>

\* requestSettingsData()
RequestSettingsData(c, w) ==
    IF CanWrite(c, w) THEN << SettingsFrame >> ELSE << >>

\* sendCommand(reg, value)
SendCommand(c, w, reg, value) ==
    IF CanWrite(c, w) THEN << CommandFrame(reg, value) >> ELSE << >>

\* the register a toggle writes
ToggleReg(out) ==
    CASE out = "usb" -> USB_TOGGLE
      [] out = "dc" -> DC_TOGGLE
      [] out = "ac" -> AC_TOGGLE

\* the flag a toggle reads
OutputActive(d, out) ==
    CASE out = "usb" -> d.usbActive
      [] out = "dc" -> d.dcActive
      [] out = "ac" -> d.acActive

\* a toggle that writes the state the output already has
ToggleValue_Repeats(d, out) == IF OutputActive(d, out) THEN 1 ELSE 0

\* toggleUSB(): _data.usbActive ? 0 : 1, and so for DC and AC
ToggleValue(d, out) == IF OutputActive(d, out) THEN 0 ELSE 1

\* an update() that forgets the reset on success
FailuresAfter_NoReset(ok, cf) == IF ok THEN cf ELSE cf + 1

\* update(): consecutiveFailures++ on failure, = 0 on success
FailuresAfter(ok, cf) == IF ok THEN 0 ELSE cf + 1

\* loop(): if (bleClient->isConnected()) updatePowerBankData(getData())
LoopCopy(c, d, ui) == IF c THEN d ELSE ui

\* an update() that could be entered while a call of it is blocked
LoopReady_Reentrant == pc # "boot"

\* loop() calls update() when the previous iteration has returned
LoopReady == pc = "idle"

\* connectToDevice() returns to update() or to startScan(), and they to their
\* caller; result is "ok" for true, and for false the failure that was logged
Return(result) ==
    /\ pc' = "idle"
    /\ caller' = "none"
    /\ connecting' = 0
    /\ attemptResult' = result
    /\ consecutiveFailures' =
           IF caller = "update"
           THEN FailuresAfter(result = "ok", consecutiveFailures)
           ELSE consecutiveFailures
    /\ observed' =
           IF caller = "update" THEN LoopCopy(_connected', _data', observed)
           ELSE observed
    /\ UNCHANGED << config, _client, timers, lastReconnectAttempt, uiSel, now,
                    budget, rx >>

\* a discovery failure that returns false without disconnect()
FailWithDisconnect_NoDisconnect ==
    /\ sent' = << >>
    /\ issued' = << >>
    /\ called' = "none"
    /\ UNCHANGED renderLog
    /\ args' = << >>
    /\ UNCHANGED pollLog
    /\ UNCHANGED << handles, linkUp, subscribed, _connected, _data >>
    /\ Return("discovery_failed")

\* disconnect(), then return false
FailWithDisconnect ==
    /\ linkUp' = FALSE
    /\ subscribed' = FALSE
    /\ _connected' = FALSE
    /\ _data' = [_data EXCEPT !.connected = FALSE]
    /\ _service' = Null
    /\ _writeChar' = Null
    /\ _notifyChar' = Null
    /\ sent' = << >>
    /\ issued' = << >>
    /\ called' = "none"
    /\ UNCHANGED renderLog
    /\ args' = << >>
    /\ connectedAt' = Never
    /\ UNCHANGED << statusAt, settingsAt, observing >>
    /\ Return("discovery_failed")

\* _connected = true; _data.connected = true; requestStatusData(); return true
Succeed(w) ==
    /\ _connected' = TRUE
    /\ _data' = [_data EXCEPT !.connected = TRUE]
    /\ sent' = RequestStatusData(TRUE, w)
    /\ issued' = << >>
    /\ called' = "none"
    /\ UNCHANGED renderLog
    /\ args' = << >>
    /\ connectedAt' = Recorded(connectedAt, now)
    /\ UNCHANGED << statusAt, settingsAt, observing >>
    /\ Return("ok")

\* connectToDevice() up to the first _client->connect()
ConnectToDevice(who) ==
    IF _connected
    THEN /\ pc' = "idle"
         /\ caller' = "none"
         /\ attemptResult' = "ok"
         /\ consecutiveFailures' =
                IF who = "update" THEN FailuresAfter(TRUE, consecutiveFailures)
                ELSE consecutiveFailures
         /\ sent' = << >>
         /\ issued' = << >>
         /\ called' = "none"
         /\ UNCHANGED renderLog
         /\ args' = << >>
         /\ UNCHANGED pollLog
         /\ UNCHANGED << _client, handles, _connected, _data, linkUp,
                         subscribed, connecting, uiState, timers, rx >>
    ELSE /\ _client' = TRUE
         /\ pc' = "connect_public"
         /\ caller' = who
         /\ connecting' = connecting + 1
         /\ attemptResult' = "none"
         /\ sent' = << >>
         /\ issued' = << >>
         /\ called' = "none"
         /\ UNCHANGED renderLog
         /\ args' = << >>
         /\ UNCHANGED pollLog
         /\ UNCHANGED << handles, _connected, _data, linkUp, subscribed,
                         consecutiveFailures, uiState, timers, rx >>

(***************************************************************************)
(* The loop task                                                           *)
(***************************************************************************)
\* initBLE(): setTargetMAC(), init() and startScan() when a MAC is configured
InitBLE ==
    /\ pc = "boot"
    /\ \E mac \in BOOLEAN :
           IF mac
           THEN /\ targetSet' = TRUE
                /\ _initialized' = TRUE
                /\ budget' = 1
                /\ ConnectToDevice("startScan")
                /\ UNCHANGED << lastReconnectAttempt, now >>
           ELSE /\ pc' = "idle"
                /\ budget' = 1
                /\ sent' = << >>
                /\ issued' = << >>
                /\ called' = "none"
                /\ UNCHANGED renderLog
                /\ args' = << >>
                /\ UNCHANGED pollLog
                /\ attemptResult' = "none"
                /\ UNCHANGED << config, _client, handles, _connected, _data,
                                timers, retryState, uiState, now, linkUp,
                                subscribed, caller, rx, connecting >>

\* update() with !_initialized, or disconnected with no attempt made
UpdateNoAttempt ==
    /\ LoopReady
    /\ \/ ~_initialized
       \/ /\ ~_connected
          /\ \/ GivenUp(consecutiveFailures)
             \/ ~RetryDue(now, lastReconnectAttempt, consecutiveFailures)
    /\ sent' = << >>
    /\ issued' = << >>
    /\ called' = "none"
    /\ UNCHANGED renderLog
    /\ args' = << >>
    /\ UNCHANGED pollLog
    /\ budget' = 1
    /\ observed' = LoopCopy(_connected, _data, observed)
    /\ attemptResult' = "none"
    /\ UNCHANGED << config, _client, handles, _connected, _data, timers,
                    retryState, uiSel, now, linkUp, subscribed, pc, caller,
                    rx, connecting >>

\* an update() that does not return when init() has not run
UpdateAttempt_Uninitialized ==
    /\ LoopReady
    /\ ~_connected
    /\ ~GivenUp(consecutiveFailures)
    /\ RetryDue(now, lastReconnectAttempt, consecutiveFailures)
    /\ lastReconnectAttempt' = now
    /\ budget' = 1
    /\ ConnectToDevice("update")
    /\ UNCHANGED << config, now >>

\* update(), disconnected and the retry due
UpdateAttempt ==
    /\ LoopReady
    /\ _initialized
    /\ ~_connected
    /\ ~GivenUp(consecutiveFailures)
    /\ RetryDue(now, lastReconnectAttempt, consecutiveFailures)
    /\ lastReconnectAttempt' = now
    /\ budget' = 1
    /\ ConnectToDevice("update")
    /\ UNCHANGED << config, now >>

\* update(), connected: the two polls
UpdatePoll ==
    /\ LoopReady
    /\ _initialized
    /\ _connected
    /\ _lastPoll' = IF StatusPollDue(now, _lastPoll) THEN now ELSE _lastPoll
    /\ _lastSettingsPoll' =
           IF SettingsPollDue(now, _lastSettingsPoll) THEN now
           ELSE _lastSettingsPoll
    /\ sent' =
           (IF StatusPollDue(now, _lastPoll)
            THEN RequestStatusData(_connected, _writeChar) ELSE << >>)
           \o (IF SettingsPollDue(now, _lastSettingsPoll)
               THEN RequestSettingsData(_connected, _writeChar) ELSE << >>)
    /\ issued' = << >>
    /\ called' = "none"
    /\ UNCHANGED renderLog
    /\ args' = << >>
    /\ statusAt' =
           IF StatusPollDue(now, _lastPoll)
                  /\ RequestStatusData(_connected, _writeChar) # << >>
           THEN Recorded(statusAt, now) ELSE statusAt
    /\ settingsAt' =
           IF SettingsPollDue(now, _lastSettingsPoll)
                  /\ RequestSettingsData(_connected, _writeChar) # << >>
           THEN Recorded(settingsAt, now) ELSE settingsAt
    /\ UNCHANGED << connectedAt, observing >>
    /\ budget' = 1
    /\ observed' = LoopCopy(_connected, _data, observed)
    /\ attemptResult' = "none"
    /\ UNCHANGED << config, _client, handles, _connected, _data, retryState,
                    uiSel, now, linkUp, subscribed, pc, caller, rx,
                    connecting >>

\* _client->connect(_targetAddress) returns; onConnect() ran if it connected
ConnectPublicReturn ==
    /\ pc = "connect_public"
    /\ sent' = << >>
    /\ issued' = << >>
    /\ called' = "none"
    /\ UNCHANGED renderLog
    /\ args' = << >>
    /\ UNCHANGED pollLog
    /\ \E ok \in BOOLEAN :
           IF ok
           THEN /\ linkUp' = TRUE
                /\ _connected' = TRUE
                /\ _data' = [_data EXCEPT !.connected = TRUE]
                /\ pc' = "get_service"
                /\ UNCHANGED budget
           ELSE /\ pc' = "connect_random"
                /\ budget' = 1
                /\ UNCHANGED << linkUp, _connected, _data >>
    /\ attemptResult' = "none"
    /\ UNCHANGED << config, _client, handles, timers, retryState, uiState,
                    now, subscribed, caller, rx, connecting >>

\* _client->connect(randomAddr) returns
ConnectRandomReturn ==
    /\ pc = "connect_random"
    /\ \E ok \in BOOLEAN :
           IF ok
           THEN /\ linkUp' = TRUE
                /\ _connected' = TRUE
                /\ _data' = [_data EXCEPT !.connected = TRUE]
                /\ pc' = "get_service"
                /\ sent' = << >>
                /\ issued' = << >>
                /\ called' = "none"
                /\ UNCHANGED renderLog
                /\ args' = << >>
                /\ UNCHANGED pollLog
                /\ attemptResult' = "none"
                /\ UNCHANGED << config, _client, timers, retryState, uiState,
                                now, budget, caller, rx, connecting >>
           ELSE /\ sent' = << >>
                /\ issued' = << >>
                /\ called' = "none"
                /\ UNCHANGED renderLog
                /\ args' = << >>
                /\ UNCHANGED pollLog
                /\ UNCHANGED << linkUp, _connected, _data >>
                /\ Return("connect_failed")
    /\ UNCHANGED << handles, subscribed >>

\* _client->getService(SERVICE_UUID) returns: found on a live link only
GetServiceReturn ==
    /\ pc = "get_service"
    /\ \E found \in BOOLEAN :
           IF linkUp /\ found
           THEN /\ _service' = "service"
                /\ pc' = "get_write"
                /\ sent' = << >>
                /\ issued' = << >>
                /\ called' = "none"
                /\ UNCHANGED renderLog
                /\ args' = << >>
                /\ UNCHANGED pollLog
                /\ attemptResult' = "none"
                /\ UNCHANGED << config, _client, _writeChar, _notifyChar,
                                _connected, _data, timers, retryState,
                                uiState, now, linkUp, subscribed, caller,
                                budget, rx, connecting >>
           ELSE FailWithDisconnect

\* _service->getCharacteristic(WRITE_CHAR_UUID) returns
GetWriteReturn ==
    /\ pc = "get_write"
    /\ \E found \in BOOLEAN :
           IF linkUp /\ found
           THEN /\ _writeChar' = "writeChar"
                /\ pc' = "get_notify"
                /\ sent' = << >>
                /\ issued' = << >>
                /\ called' = "none"
                /\ UNCHANGED renderLog
                /\ args' = << >>
                /\ UNCHANGED pollLog
                /\ attemptResult' = "none"
                /\ UNCHANGED << config, _client, _service, _notifyChar,
                                _connected, _data, timers, retryState,
                                uiState, now, linkUp, subscribed, caller,
                                budget, rx, connecting >>
           ELSE FailWithDisconnect

\* _service->getCharacteristic(NOTIFY_CHAR_UUID) returns; canNotify() decides
\* whether subscribe() is called
GetNotifyReturn ==
    /\ pc = "get_notify"
    /\ \E found \in BOOLEAN, canNotify \in BOOLEAN :
           IF linkUp /\ found
           THEN IF canNotify
                THEN /\ _notifyChar' = "notifyChar"
                     /\ pc' = "subscribe"
                     /\ sent' = << >>
                     /\ issued' = << >>
                     /\ called' = "none"
                     /\ UNCHANGED renderLog
                     /\ args' = << >>
                     /\ UNCHANGED pollLog
                     /\ attemptResult' = "none"
                     /\ UNCHANGED << config, _client, _service, _writeChar,
                                     _connected, _data, timers, retryState,
                                     uiState, now, linkUp, subscribed, caller,
                                     budget, rx, connecting >>
                ELSE /\ _notifyChar' = "notifyChar"
                     /\ UNCHANGED << _service, _writeChar, linkUp, subscribed >>
                     /\ Succeed(_writeChar)
           ELSE FailWithDisconnect

\* _notifyChar->subscribe(true, notifyCallback) returns, its result unused
SubscribeReturn ==
    /\ pc = "subscribe"
    /\ subscribed' = linkUp
    /\ UNCHANGED << handles, linkUp >>
    /\ Succeed(_writeChar)

\* subscribe() returns and connectToDevice() executes _connected = true, the
\* first of its two unlocked writes; the transport's task may run before the
\* second
SubscribeReturnSetsFlag ==
    /\ pc = "subscribe"
    /\ subscribed' = linkUp
    /\ _connected' = TRUE
    /\ pc' = "set_data_connected"
    /\ sent' = << >>
    /\ issued' = << >>
    /\ called' = "none"
    /\ UNCHANGED renderLog
    /\ args' = << >>
    /\ UNCHANGED pollLog
    /\ attemptResult' = "none"
    /\ UNCHANGED << config, _client, handles, _data, timers, retryState,
                    uiState, now, linkUp, caller, budget, rx, connecting >>

\* _data.connected = true; requestStatusData(); return true
SetDataConnected ==
    /\ pc = "set_data_connected"
    /\ _data' = [_data EXCEPT !.connected = TRUE]
    /\ sent' = RequestStatusData(_connected, _writeChar)
    /\ issued' = << >>
    /\ called' = "none"
    /\ UNCHANGED renderLog
    /\ args' = << >>
    /\ connectedAt' = Recorded(connectedAt, now)
    /\ UNCHANGED << statusAt, settingsAt, observing >>
    /\ UNCHANGED << handles, _connected, linkUp, subscribed >>
    /\ Return("ok")

\* handleHomeTouch(): a toggle is touched; ignored unless isConnected()
UITouch ==
    /\ LoopReady
    /\ sent' = << >>
    /\ issued' = << >>
    /\ called' = "none"
    /\ UNCHANGED renderLog
    /\ args' = << >>
    /\ UNCHANGED pollLog
    /\ \E out \in Outputs :
           IF _connected
           THEN pc' = "ui_toggle" /\ uiSel' = out
           ELSE UNCHANGED << pc, uiSel >>
    /\ attemptResult' = "none"
    /\ UNCHANGED << config, _client, handles, _connected, _data, timers,
                    retryState, observed, now, linkUp, subscribed, caller,
                    budget, rx, connecting >>

\* toggleUSB() / toggleDC() / toggleAC()
UIToggle ==
    /\ pc = "ui_toggle"
    /\ issued' = << ToggleReg(uiSel), ToggleValue(_data, uiSel) >>
    /\ called' = "none"
    /\ UNCHANGED renderLog
    /\ args' = << >>
    /\ UNCHANGED pollLog
    /\ sent' = SendCommand(_connected, _writeChar, ToggleReg(uiSel),
                           ToggleValue(_data, uiSel))
    /\ pc' = "idle"
    /\ uiSel' = "none"
    /\ attemptResult' = "none"
    /\ UNCHANGED << config, _client, handles, _connected, _data, timers,
                    retryState, observed, now, linkUp, subscribed, caller,
                    budget, rx, connecting >>

(***************************************************************************)
(* The transport's task and the clock                                      *)
(***************************************************************************)
\* an onDisconnect() that leaves the cached handles in place
OnDisconnect_KeepsHandles ==
    /\ linkUp
    /\ linkUp' = FALSE
    /\ subscribed' = FALSE
    /\ _connected' = FALSE
    /\ _data' = [_data EXCEPT !.connected = FALSE]
    /\ sent' = << >>
    /\ issued' = << >>
    /\ called' = "none"
    /\ UNCHANGED renderLog
    /\ args' = << >>
    /\ connectedAt' = Never
    /\ UNCHANGED << statusAt, settingsAt, observing >>
    /\ attemptResult' = "none"
    /\ UNCHANGED << config, _client, handles, timers, retryState, uiState,
                    now, pc, caller, budget, rx, connecting >>

\* the link drops and the transport calls onDisconnect()
OnDisconnect ==
    /\ linkUp
    /\ linkUp' = FALSE
    /\ subscribed' = FALSE
    /\ _connected' = FALSE
    /\ _data' = [_data EXCEPT !.connected = FALSE]
    /\ _service' = Null
    /\ _writeChar' = Null
    /\ _notifyChar' = Null
    /\ sent' = << >>
    /\ issued' = << >>
    /\ called' = "none"
    /\ UNCHANGED renderLog
    /\ args' = << >>
    /\ connectedAt' = Never
    /\ UNCHANGED << statusAt, settingsAt, observing >>
    /\ attemptResult' = "none"
    /\ UNCHANGED << config, _client, timers, retryState, uiState, now, pc,
                    caller, budget, rx, connecting >>

\* millis() advances by TickMs
Tick ==
    /\ budget > 0
    /\ now + TickMs <= MaxNow
    /\ now' = (now + TickMs) % MillisMod
    /\ budget' = budget - 1
    /\ sent' = << >>
    /\ issued' = << >>
    /\ called' = "none"
    /\ UNCHANGED renderLog
    /\ args' = << >>
    /\ UNCHANGED pollLog
    /\ attemptResult' = "none"
    /\ UNCHANGED << config, _client, handles, _connected, _data, timers,
                    retryState, uiState, linkUp, subscribed, pc, caller, rx,
                    connecting >>

\* millis() advances by FineTickMs and wraps around at 2^32 ms
TickWrap ==
    /\ budget > 0
    /\ SinceOrigin(now) + FineTickMs <= MaxWrapTicks * FineTickMs
    /\ now' = (now + FineTickMs) % MillisMod
    /\ budget' = budget - 1
    /\ sent' = << >>
    /\ issued' = << >>
    /\ called' = "none"
    /\ UNCHANGED renderLog
    /\ args' = << >>
    /\ attemptResult' = "none"
    /\ UNCHANGED << config, _client, handles, _connected, _data, timers,
                    retryState, uiState, linkUp, subscribed, pc, caller, rx,
                    connecting, pollLog >>

\* millis() advances by FineTickMs
TickFine ==
    /\ budget > 0
    /\ now + FineTickMs <= MaxFineNow
    /\ now' = (now + FineTickMs) % MillisMod
    /\ budget' = budget - 1
    /\ sent' = << >>
    /\ issued' = << >>
    /\ called' = "none"
    /\ UNCHANGED renderLog
    /\ args' = << >>
    /\ attemptResult' = "none"
    /\ UNCHANGED << config, _client, handles, _connected, _data, timers,
                    retryState, uiState, linkUp, subscribed, pc, caller, rx,
                    connecting, pollLog >>

(***************************************************************************)
(* The client's internal functions applied to sample inputs                *)
(***************************************************************************)
\* registers given to sendCommand(): a uint8_t
SampleRegs == { 0, USB_TOGGLE, 27, 66, 67, 255 }

\* values given to sendCommand(): a uint16_t
SampleValues == { 0, 1, 255, 256, 600, 1000, 65535 }

\* a disconnect() that forgets the service handle
CallDisconnect_KeepsService ==
    /\ pc = "idle"
    /\ linkUp' = FALSE
    /\ subscribed' = FALSE
    /\ _connected' = FALSE
    /\ _data' = [_data EXCEPT !.connected = FALSE]
    /\ _writeChar' = Null
    /\ _notifyChar' = Null
    /\ connectedAt' = Never
    /\ sent' = << >>
    /\ issued' = << >>
    /\ called' = "disconnect"
    /\ UNCHANGED renderLog
    /\ args' = << >>
    /\ attemptResult' = "none"
    /\ UNCHANGED << config, _client, _service, timers, retryState, uiState,
                    now, pc, caller, budget, rx, connecting, statusAt,
                    settingsAt, observing >>

\* disconnect(), between two iterations of loop()
CallDisconnect ==
    /\ pc = "idle"
    /\ linkUp' = FALSE
    /\ subscribed' = FALSE
    /\ _connected' = FALSE
    /\ _data' = [_data EXCEPT !.connected = FALSE]
    /\ _service' = Null
    /\ _writeChar' = Null
    /\ _notifyChar' = Null
    /\ connectedAt' = Never
    /\ sent' = << >>
    /\ issued' = << >>
    /\ called' = "disconnect"
    /\ UNCHANGED renderLog
    /\ args' = << >>
    /\ attemptResult' = "none"
    /\ UNCHANGED << config, _client, timers, retryState, uiState, now, pc,
                    caller, budget, rx, connecting, statusAt, settingsAt,
                    observing >>

\* sendCommand(reg, value)
CallSendCommand ==
    /\ pc = "idle"
    /\ \E reg \in SampleRegs, value \in SampleValues :
           /\ issued' = << reg, value >>
           /\ sent' = SendCommand(_connected, _writeChar, reg, value)
    /\ called' = "sendCommand"
    /\ UNCHANGED renderLog
    /\ args' = << >>
    /\ attemptResult' = "none"
    /\ UNCHANGED << config, _client, handles, _connected, _data, timers,
                    retryState, uiState, now, linkUp, subscribed, pc, caller,
                    budget, rx, connecting, pollLog >>

\* the least and the greatest int
IntMax == 2147483647

IntMin == -IntMax - 1

\* ints given to setLightMode(), to the two limit setters and to the
\* standby, timeout and schedule setters
SampleModes == { IntMin, -1, 0, 2, 3, 4, IntMax }

SamplePercents == { IntMin, -1, 0, 15, 30, 31, 59, 60, 100, 101, IntMax }

SampleMinutes == { IntMin, -1, 0, 90, 65535, 65536, 70000, IntMax }

\* an int argument converted to the uint16_t parameter of sendCommand()
ToUint16(x) == x % 65536

\* setLightMode(mode): what it gives sendCommand() as the value
LightModeValue(mode) ==
    LET atLeast == IF mode < 0 THEN 0 ELSE mode
    IN  IF atLeast > 3 THEN 3 ELSE atLeast

\* setDischargeLimit(percent)
DischargeLimitValue(percent) ==
    LET atLeast == IF percent < 0 THEN 0 ELSE percent
    IN  (IF atLeast > 30 THEN 30 ELSE atLeast) * 10

\* setChargeLimit(percent)
ChargeLimitValue(percent) ==
    LET atLeast == IF percent < 60 THEN 60 ELSE percent
    IN  (IF atLeast > 100 THEN 100 ELSE atLeast) * 10

\* setScreenTimeout(minutes) and the five setters written like it
StandbyValue(minutes) == IF minutes < 0 THEN 0 ELSE minutes

\* a setter called with arg, between two iterations of loop(): it gives
\* sendCommand() the register and the value
CallSetter(name, reg, value, arg) ==
    /\ pc = "idle"
    /\ issued' = << reg, ToUint16(value) >>
    /\ sent' = SendCommand(_connected, _writeChar, reg, ToUint16(value))
    /\ called' = name
    /\ args' = << arg >>
    /\ attemptResult' = "none"
    /\ UNCHANGED << config, _client, handles, _connected, _data, timers,
                    retryState, uiState, now, linkUp, subscribed, pc, caller,
                    budget, rx, connecting, pollLog, renderLog >>

CallSetLightMode ==
    \E mode \in SampleModes :
        CallSetter("setLightMode", LIGHT_MODE, LightModeValue(mode), mode)

CallSetDischargeLimit ==
    \E percent \in SamplePercents :
        CallSetter("setDischargeLimit", DISCHARGE_LIMIT,
                   DischargeLimitValue(percent), percent)

CallSetChargeLimit ==
    \E percent \in SamplePercents :
        CallSetter("setChargeLimit", CHARGE_LIMIT, ChargeLimitValue(percent),
                   percent)

CallSetScreenTimeout ==
    \E minutes \in SampleMinutes :
        CallSetter("setScreenTimeout", SCREEN_TIMEOUT, StandbyValue(minutes),
                   minutes)

CallSetSysStandby ==
    \E minutes \in SampleMinutes :
        CallSetter("setSysStandby", SYS_STANDBY, StandbyValue(minutes),
                   minutes)

CallSetACStandby ==
    \E minutes \in SampleMinutes :
        CallSetter("setACStandby", AC_STANDBY, StandbyValue(minutes), minutes)

CallSetDCStandby ==
    \E minutes \in SampleMinutes :
        CallSetter("setDCStandby", DC_STANDBY, StandbyValue(minutes), minutes)

CallSetUSBStandby ==
    \E seconds \in SampleMinutes :
        CallSetter("setUSBStandby", USB_STANDBY, StandbyValue(seconds),
                   seconds)

CallSetScheduleCharge ==
    \E minutes \in SampleMinutes :
        CallSetter("setScheduleCharge", SCHEDULE_CHARGE,
                   StandbyValue(minutes), minutes)

\* requestStatusData()
CallRequestStatusData ==
    /\ pc = "idle"
    /\ sent' = RequestStatusData(_connected, _writeChar)
    /\ issued' = << >>
    /\ called' = "requestStatusData"
    /\ UNCHANGED renderLog
    /\ args' = << >>
    /\ attemptResult' = "none"
    /\ UNCHANGED << config, _client, handles, _connected, _data, timers,
                    retryState, uiState, now, linkUp, subscribed, pc, caller,
                    budget, rx, connecting, pollLog >>

\* requestSettingsData()
CallRequestSettingsData ==
    /\ pc = "idle"
    /\ sent' = RequestSettingsData(_connected, _writeChar)
    /\ issued' = << >>
    /\ called' = "requestSettingsData"
    /\ UNCHANGED renderLog
    /\ args' = << >>
    /\ attemptResult' = "none"
    /\ UNCHANGED << config, _client, handles, _connected, _data, timers,
                    retryState, uiState, now, linkUp, subscribed, pc, caller,
                    budget, rx, connecting, pollLog >>

\* the status readings of a PowerBankData
Rendered(d) ==
    [ batteryPercent |-> d.batteryPercent, batteryVoltage |-> d.batteryVoltage,
      inputPower |-> d.inputPower, outputPower |-> d.outputPower,
      acInputPower |-> d.acInputPower, dcInputPower |-> d.dcInputPower,
      usbActive |-> d.usbActive, dcActive |-> d.dcActive,
      acActive |-> d.acActive, minutesToFull |-> d.minutesToFull,
      minutesToEmpty |-> d.minutesToEmpty ]

\* markRefreshed(), called by a consumer between two iterations of loop()
CallMarkRefreshed ==
    /\ pc = "idle"
    /\ _data' = MarkRefreshed(_data)
    /\ rendered' = { Rendered(_data) }
    /\ sent' = << >>
    /\ issued' = << >>
    /\ called' = "markRefreshed"
    /\ args' = << >>
    /\ attemptResult' = "none"
    /\ UNCHANGED << config, _client, handles, _connected, timers, retryState,
                    uiState, now, linkUp, subscribed, pc, caller, budget, rx,
                    connecting, pollLog, statusDecoded >>

\* notifyCallback() run from its entry to its return while the loop task
\* does nothing, on one of the given notifications
NotifyCallbackOf(notifications) ==
    /\ linkUp
    /\ subscribed
    /\ rx.kind \in { "idle", "none", "done" }
    /\ \E data \in notifications :
           /\ rx' = [ kind |-> IF Dispatch(data) = "none" THEN "none"
                               ELSE "done",
                      payload |-> data, step |-> 0 ]
           /\ _data' = CASE Dispatch(data) = "status"
                               -> ParseStatusData(_data, data)
                          [] Dispatch(data) = "settings"
                               -> ParseSettingsData(_data, data)
                          [] OTHER -> _data
           /\ statusDecoded' = IF Dispatch(data) = "status"
                               THEN Recorded(statusDecoded, TRUE)
                               ELSE statusDecoded
    /\ sent' = << >>
    /\ issued' = << >>
    /\ called' = "none"
    /\ args' = << >>
    /\ attemptResult' = "none"
    /\ UNCHANGED << config, _client, handles, _connected, timers, retryState,
                    uiState, now, linkUp, subscribed, pc, caller, budget,
                    connecting, pollLog, rendered >>

NotifyCallback == NotifyCallbackOf(SampleNotifications)

\* the same callback when the peer repeats one status and one settings
\* response
NotifyCallbackRepeated ==
    NotifyCallbackOf({ StatusA, SettingsA, ShortStatus, OtherOpcode })

\* notifyCallback(): a notification arrives and is dispatched on its opcode
Notify ==
    /\ linkUp
    /\ subscribed
    /\ rx.kind \in { "idle", "none" }
    /\ \E data \in Payloads :
           rx' = [ kind |-> Dispatch(data), payload |-> data,
                   step |-> IF Dispatch(data) = "none" THEN 0 ELSE 1 ]
    /\ sent' = << >>
    /\ issued' = << >>
    /\ called' = "none"
    /\ UNCHANGED renderLog
    /\ args' = << >>
    /\ UNCHANGED pollLog
    /\ attemptResult' = "none"
    /\ UNCHANGED << config, _client, handles, _connected, _data, timers,
                    retryState, uiState, now, linkUp, subscribed, pc, caller,
                    budget, connecting >>

\* the next assignment of parseStatusData() or parseSettingsData()
DecodeStep ==
    /\ rx.kind \in { "status", "settings" }
    /\ _data' = IF rx.kind = "status"
                THEN StatusWrite(_data, rx.payload, rx.step)
                ELSE SettingsWrite(_data, rx.payload, rx.step)
    /\ rx' = IF rx.step = (IF rx.kind = "status" THEN StatusWrites
                           ELSE SettingsWrites)
             THEN RxIdle
             ELSE [rx EXCEPT !.step = rx.step + 1]
    /\ sent' = << >>
    /\ issued' = << >>
    /\ called' = "none"
    /\ statusDecoded' = IF rx.kind = "status" /\ rx.step = StatusWrites
                        THEN Recorded(statusDecoded, TRUE)
                        ELSE statusDecoded
    /\ UNCHANGED rendered
    /\ args' = << >>
    /\ UNCHANGED pollLog
    /\ attemptResult' = "none"
    /\ UNCHANGED << config, _client, handles, _connected, timers, retryState,
                    uiState, now, linkUp, subscribed, pc, caller, budget,
                    connecting >>

Next ==
    \/ InitBLE
    \/ UpdateNoAttempt
    \/ UpdateAttempt
    \/ UpdatePoll
    \/ ConnectPublicReturn
    \/ ConnectRandomReturn
    \/ GetServiceReturn
    \/ GetWriteReturn
    \/ GetNotifyReturn
    \/ SubscribeReturn
    \/ UITouch
    \/ UIToggle
    \/ OnDisconnect
    \/ Tick

Spec == Init /\ [][Next]_vars

\* update(), whichever branch it takes
Update == UpdateNoAttempt \/ UpdateAttempt \/ UpdatePoll

\* the blocking transport call of a connection attempt returns
TransportReturn ==
    \/ ConnectPublicReturn
    \/ ConnectRandomReturn
    \/ GetServiceReturn
    \/ GetWriteReturn
    \/ GetNotifyReturn
    \/ SubscribeReturn

\* The client with nothing touched on the UI, and with its scheduling:
\* loop() is called again and again, so update() runs whenever the loop task
\* is not blocked; millis() advances up to the horizon of the model; a
\* blocking transport call returns, at the latest on its timeout.  A link
\* loss may or may not happen.
NextLive ==
    \/ InitBLE
    \/ Update
    \/ TransportReturn
    \/ OnDisconnect
    \/ Tick

Fairness ==
    /\ WF_vars(Tick)
    /\ WF_vars(Update)
    /\ WF_vars(TransportReturn)

\* every behaviour of that client, whatever the scheduling
SpecLoop == Init /\ [][NextLive]_vars

SpecLive == SpecLoop /\ Fairness

\* The instant after boot with a peer that notifies: the clock stands still,
\* so no retry comes due, and the transport's task decodes while loop() reads.
NextRx ==
    \/ InitBLE
    \/ UpdateNoAttempt
    \/ UpdatePoll
    \/ ConnectPublicReturn
    \/ ConnectRandomReturn
    \/ GetServiceReturn
    \/ GetWriteReturn
    \/ GetNotifyReturn
    \/ SubscribeReturn
    \/ OnDisconnect
    \/ Notify
    \/ DecodeStep

SpecRx == Init /\ [][NextRx]_vars

\* The polls of update() on a finer clock, with the times of the requests and
\* of the connections recorded; nothing is touched on the UI.
NextPoll ==
    \/ InitBLE
    \/ UpdateNoAttempt
    \/ UpdateAttempt
    \/ UpdatePoll
    \/ ConnectPublicReturn
    \/ ConnectRandomReturn
    \/ GetServiceReturn
    \/ GetWriteReturn
    \/ GetNotifyReturn
    \/ SubscribeReturn
    \/ OnDisconnect
    \/ TickFine

SpecPoll == InitObserved /\ [][NextPoll]_vars

\* The client on the finer clock with the last two writes of
\* connectToDevice() taken one at a time, so that onDisconnect() on the
\* transport's task can run between them.
NextRace ==
    \/ InitBLE
    \/ UpdateNoAttempt
    \/ UpdateAttempt
    \/ UpdatePoll
    \/ ConnectPublicReturn
    \/ ConnectRandomReturn
    \/ GetServiceReturn
    \/ GetWriteReturn
    \/ GetNotifyReturn
    \/ SubscribeReturnSetsFlag
    \/ SetDataConnected
    \/ OnDisconnect
    \/ TickFine

SpecRace == Init /\ [][NextRace]_vars

\* The client 49.7 days after boot, when millis() wraps around: update()
\* polls and reconnects with timers taken before the wrap.
NextWrap ==
    \/ UpdateNoAttempt
    \/ UpdateAttempt
    \/ UpdatePoll
    \/ ConnectPublicReturn
    \/ ConnectRandomReturn
    \/ GetServiceReturn
    \/ GetWriteReturn
    \/ GetNotifyReturn
    \/ SubscribeReturn
    \/ OnDisconnect
    \/ TickWrap

SpecWrap == InitWrap /\ [][NextWrap]_vars

\* The instant after boot, with the client's internal functions applied to
\* the states the firmware reaches and to sample inputs.
NextCalls ==
    \/ InitBLE
    \/ UpdateNoAttempt
    \/ UpdatePoll
    \/ ConnectPublicReturn
    \/ ConnectRandomReturn
    \/ GetServiceReturn
    \/ GetWriteReturn
    \/ GetNotifyReturn
    \/ SubscribeReturn
    \/ OnDisconnect
    \/ CallDisconnect
    \/ CallSendCommand
    \/ CallRequestStatusData
    \/ CallRequestSettingsData

SpecCalls == Init /\ [][NextCalls]_vars

\* The instant after boot, with the setters of the public interface called
\* with sample arguments in the states the connection attempt reaches.
NextSetters ==
    \/ InitBLE
    \/ ConnectPublicReturn
    \/ ConnectRandomReturn
    \/ GetServiceReturn
    \/ GetWriteReturn
    \/ GetNotifyReturn
    \/ SubscribeReturn
    \/ OnDisconnect
    \/ CallSetLightMode
    \/ CallSetDischargeLimit
    \/ CallSetChargeLimit
    \/ CallSetScreenTimeout
    \/ CallSetSysStandby
    \/ CallSetACStandby
    \/ CallSetDCStandby
    \/ CallSetUSBStandby
    \/ CallSetScheduleCharge

SpecSetters == Init /\ [][NextSetters]_vars

\* The instant after boot with a peer that notifies and a consumer that
\* calls markRefreshed() between notifications: each notification is decoded
\* in one step, and what the consumer rendered is recorded.
NextChange ==
    \/ InitBLE
    \/ ConnectPublicReturn
    \/ ConnectRandomReturn
    \/ GetServiceReturn
    \/ GetWriteReturn
    \/ GetNotifyReturn
    \/ SubscribeReturn
    \/ OnDisconnect
    \/ NotifyCallback
    \/ CallMarkRefreshed

SpecChange == InitObserved /\ [][NextChange]_vars

\* The same consumer beside the whole client: loop() runs update() and the
\* toggles while the peer repeats its responses.
NextRefresh ==
    \/ InitBLE
    \/ UpdateNoAttempt
    \/ UpdatePoll
    \/ ConnectPublicReturn
    \/ ConnectRandomReturn
    \/ GetServiceReturn
    \/ GetWriteReturn
    \/ GetNotifyReturn
    \/ SubscribeReturn
    \/ UITouch
    \/ UIToggle
    \/ OnDisconnect
    \/ CallDisconnect
    \/ NotifyCallbackRepeated
    \/ CallMarkRefreshed

SpecRefresh == InitObserved /\ [][NextRefresh]_vars

(***************************************************************************)
(* Properties                                                              *)
(***************************************************************************)
\* connectToDevice() has been entered and has not returned
AttemptPhases ==
    { "connect_public", "connect_random", "get_service", "get_write",
      "get_notify", "subscribe", "set_data_connected" }

\* the part of discoverServices() that looks up the three handles
LookupPhases == { "get_service", "get_write", "get_notify" }

\* the delay stated for the retry that follows the k-th consecutive failure
StatedDelays == << Ms(60000), Ms(120000), Ms(240000), Ms(240000) >>

\* C1: starting disconnected with the counter at 0 and every attempt failing,
\* the retry after the k-th consecutive failure (k = 1..4) is made by the first
\* update() that runs more than 60 s, 120 s, 240 s, 240 s after the failed
\* attempt started, and with five failures counted no attempt is made.
C1_BackoffSequence ==
    /\ (pc = "idle" /\ _initialized /\ ~_connected
            /\ consecutiveFailures \in 1..4)
           => (ENABLED UpdateAttempt
                   <=> Elapsed(now, lastReconnectAttempt)
                           > StatedDelays[consecutiveFailures])
    /\ consecutiveFailures >= MAX_FAILURES => ~ENABLED UpdateAttempt

\* C2: once the counter has reached 5, no step of the program, at any time
\* value, starts a connection attempt or changes the counter.
C2_GivingUpIsTerminal ==
    [][consecutiveFailures >= MAX_FAILURES
           => /\ consecutiveFailures' = consecutiveFailures
              /\ connecting' = 0
              /\ pc' \notin AttemptPhases
              /\ lastReconnectAttempt' = lastReconnectAttempt]_vars

\* C2 witness: given up, update() about to run, and the retry interval over
C2_Witness ==
    /\ consecutiveFailures >= MAX_FAILURES
    /\ pc = "idle"
    /\ ~_connected
    /\ budget = 1
    /\ Elapsed(now, lastReconnectAttempt) > RetryInterval(consecutiveFailures)

\* C3: when a connection attempt has just succeeded the client is connected
\* and the consecutive-failure counter is 0.
C3_SuccessResetsCounter ==
    attemptResult = "ok" => (_connected /\ consecutiveFailures = 0)

\* C3 witness: an attempt made by update() after a counted failure succeeded
C3_Witness ==
    /\ attemptResult = "ok"
    /\ lastReconnectAttempt > Ms(180000)
    /\ consecutiveFailures = 0

\* C4: every successful connection attempt has written exactly one status
\* read request when it returns.
C4_SuccessSendsOneStatusRequest ==
    attemptResult = "ok" => sent = << StatusFrame >>

C6_DiscoveryFailure ==
    [][/\ (pc \in LookupPhases /\ attemptResult' = "discovery_failed")
           => /\ pc' = "idle"
              /\ ~linkUp'
              /\ ~_connected'
              /\ ~_data'.connected
              /\ _service' = Null /\ _writeChar' = Null /\ _notifyChar' = Null
       /\ attemptResult' \in { "discovery_failed", "connect_failed" }
           => consecutiveFailures' =
                  IF caller = "update" THEN consecutiveFailures + 1
                  ELSE consecutiveFailures]_vars

\* C6 witness: update()'s attempt connected, a lookup failed, one more counted
C6_Witness ==
    /\ attemptResult = "discovery_failed"
    /\ consecutiveFailures >= 2
    /\ ~linkUp
    /\ _service = Null

\* C7: when the notify characteristic is found but cannot notify, the attempt
\* fails as a discovery failure and the client is not connected.
C7_NoNotifyIsFailure ==
    [][(pc = "get_notify" /\ pc' = "idle")
           => (attemptResult' = "discovery_failed" /\ ~_connected')]_vars

\* C8: when the transport reports a disconnect while the client is connected,
\* the client is disconnected with the three handles cleared, no attempt is
\* started and the failure counter, the retry clock and the poll timers keep
\* their values.
C8_DisconnectCallback ==
    [][(_connected /\ linkUp /\ ~linkUp' /\ pc' = pc)
           => /\ ~_connected'
              /\ ~_data'.connected
              /\ _service' = Null /\ _writeChar' = Null /\ _notifyChar' = Null
              /\ connecting' = connecting
              /\ caller' = caller
              /\ sent' = << >>
              /\ UNCHANGED << retryState, timers >>]_vars

\* C8 witness: the UI still shows the client connected, the link went down
\* after polls and a counted failure had set the clocks
C8_Witness ==
    /\ observed.connected
    /\ ~_connected
    /\ ~linkUp
    /\ pc = "idle"
    /\ _writeChar = Null
    /\ _lastPoll > 0
    /\ lastReconnectAttempt > 0

\* C9: a command given while the client is not connected writes nothing, and
\* nothing is written for it later: every frame written belongs to the
\* operation of that step (a command frame is the one command just given, a
\* successful attempt writes at most its status request) and is written with
\* the client connected.
C9_NoWriteWhileDisconnected ==
    /\ (issued # << >> /\ ~_connected) => sent = << >>
    /\ sent # << >> => (_connected /\ _writeChar # Null)
    /\ \A i \in 1..Len(sent) :
           sent[i][2] = 6
               => /\ issued # << >>
                  /\ sent = << CommandFrame(issued[1], issued[2]) >>
    /\ attemptResult = "ok" => sent \in { << >>, << StatusFrame >> }
    /\ (attemptResult = "none" /\ issued = << >>)
           => \A i \in 1..Len(sent) : sent[i] \in { StatusFrame, SettingsFrame }

\* C9 witness: a toggle was given after the link had dropped
C9_Witness ==
    /\ issued # << >>
    /\ ~_connected
    /\ sent = << >>

StatusFields ==
    { "acInputPower", "dcInputPower", "inputPower", "outputPower",
      "batteryVoltage", "batteryPercent", "usbActive", "dcActive", "acActive",
      "minutesToFull", "minutesToEmpty" }

SettingsFields ==
    { "lightMode", "buzzerEnabled", "silentCharging", "screenTimeout",
      "acStandby", "dcStandby", "usbStandby", "scheduleCharge",
      "dischargeLimit", "chargeLimit", "sysStandby", "settingsReceived" }

Proj(d, fields) == [ f \in fields |-> d[f] ]

\* the status snapshots that exist before or after a whole decode
WholeStatus ==
    { Proj(InitData, StatusFields) }
        \cup { Proj(ParseStatusData(InitData, p), StatusFields) :
                   p \in { q \in Payloads : Dispatch(q) = "status" } }

\* the settings snapshots that exist before or after a whole decode
WholeSettings ==
    { Proj(InitData, SettingsFields) }
        \cup { Proj(ParseSettingsData(InitData, p), SettingsFields) :
                   p \in { q \in Payloads : Dispatch(q) = "settings" } }

\* C10: the telemetry read through getData() by loop() is never half
\* updated: its status part and its settings part are each the one before
\* or the one after a whole decode of a notification.
C10_NoTornSnapshot ==
    /\ Proj(observed, StatusFields) \in WholeStatus
    /\ Proj(observed, SettingsFields) \in WholeSettings

\* C11: after a reconnection the polls of update() start again from the
\* reconnection: a periodic status request is written no sooner than 30 s, and
\* a periodic settings request no sooner than 60 s, after the connection was
\* made, whatever was missed while disconnected.
C11_PollsResumeFromReconnection ==
    [][/\ (statusAt' # statusAt /\ _lastPoll > 0)
           => Elapsed(now', connectedAt') >= POLL_INTERVAL
       /\ (settingsAt' # settingsAt /\ _lastSettingsPoll > 0)
           => Elapsed(now', connectedAt') >= SETTINGS_POLL_INTERVAL]_vars

\* C12: a periodic status request is written no sooner than 30 s after the
\* previous one and a periodic settings request no sooner than 60 s after the
\* previous one, and a step that fires one poll alone leaves the timer of the
\* other as it was.
C12_PollSpacing ==
    [][/\ statusAt' # statusAt
           => (statusAt = Never \/ Elapsed(now', statusAt) >= POLL_INTERVAL)
       /\ settingsAt' # settingsAt
           => (settingsAt = Never
                   \/ Elapsed(now', settingsAt) >= SETTINGS_POLL_INTERVAL)
       /\ (statusAt' # statusAt /\ settingsAt' = settingsAt)
           => _lastSettingsPoll' = _lastSettingsPoll
       /\ (settingsAt' # settingsAt /\ statusAt' = statusAt)
           => _lastPoll' = _lastPoll]_vars

\* C12 witness: both polls have fired, the settings poll last and alone
C12_Witness ==
    /\ _connected
    /\ statusAt # Never
    /\ settingsAt > statusAt
    /\ sent = << SettingsFrame >>

\* isConnected() false, the link down and no handle cached
Disconnected ==
    /\ ~linkUp
    /\ ~_connected
    /\ ~_data.connected
    /\ _service = Null /\ _writeChar = Null /\ _notifyChar = Null

\* what a FossibotBLE object holds, and its link
clientState ==
    << config, _client, handles, _connected, _data, timers, retryState,
       linkUp, subscribed >>

\* C13: disconnect() can be applied in every state, whether or not a client
\* object or a link exists; applied while connected, while disconnected, or
\* inside an attempt whose discovery failed, it leaves the client disconnected
\* with the link down and the three handles cleared; applied to a client that
\* is already so, it changes nothing.
C13_DisconnectIsCleanAndIdempotent ==
    /\ [](pc = "idle" => ENABLED CallDisconnect)
    /\ [][(called' = "disconnect" \/ attemptResult' = "discovery_failed")
              => Disconnected']_vars
    /\ [][(called' = "disconnect" /\ Disconnected)
              => UNCHANGED clientState]_vars

\* C13 witness: disconnect() has just been applied to a client that had been
\* connected, and can be applied again
C13_Witness ==
    /\ called = "disconnect"
    /\ Disconnected
    /\ observed.connected
    /\ _client
    /\ ENABLED CallDisconnect

\* C14: while no target address has been set, no client object is created,
\* no transport connect is called and no attempt is started or recorded.
C14_NoTargetNoConnect ==
    ~targetSet
        => /\ ~_client
           /\ ~linkUp
           /\ connecting = 0
           /\ pc \notin AttemptPhases
           /\ lastReconnectAttempt = 0
           /\ ~ENABLED UpdateAttempt

\* C14 witness: no target, update() has run with more than the first retry
\* interval on the clock
C14_Witness ==
    /\ ~targetSet
    /\ pc = "idle"
    /\ budget = 1
    /\ RetryDue(now, lastReconnectAttempt, consecutiveFailures)

\* what the consumer reads: isConnected() and getData()
ConsumerView == << _connected, _data >>

\* what the consumer reads from a client whose attempt at boot failed and
\* that is still retrying
RetryingView == << FALSE, InitData >>

\* C15: what the consumer reads through isConnected() and getData() from a
\* client that has given up differs from what it reads from a client that is
\* disconnected and still retrying.
C15_GivingUpIsSurfaced ==
    GivenUp(consecutiveFailures) => ConsumerView # RetryingView

\* the bits of x, `bits` of them, in reverse order
RECURSIVE Reflect(_, _)
Reflect(x, bits) ==
    IF bits = 0 THEN 0
    ELSE (x % 2) * Pow2(bits - 1) + Reflect(x \div 2, bits - 1)

\* CRC-16/Modbus as the CRC catalogue defines it: width 16, polynomial
\* 0x8005 (0xA001 reflected), initial value 0xFFFF, input and output
\* reflected; computed most significant bit first
RECURSIVE ReferenceShift(_, _)
ReferenceShift(crc, j) ==
    IF j = 0 THEN crc
    ELSE IF crc >= 32768
         THEN ReferenceShift(
                  BitXor((2 * crc) % 65536, Reflect(40961, 16)), j - 1)
    ELSE ReferenceShift((2 * crc) % 65536, j - 1)

RECURSIVE ReferenceFrom(_, _, _)
ReferenceFrom(crc, bytes, i) ==
    IF i > Len(bytes) THEN crc
    ELSE ReferenceFrom(
             ReferenceShift(BitXor(crc, 256 * Reflect(bytes[i], 8)), 8),
             bytes, i + 1)

ReferenceCrc(bytes) == Reflect(ReferenceFrom(65535, bytes, 1), 16)

C17_FramePayload ==
    /\ (called = "requestStatusData" \/ attemptResult = "ok")
           => sent \in { << >>, << StatusFrame >> }
    /\ called = "requestSettingsData" => sent \in { << >>, << SettingsFrame >> }
    /\ (called \in { "requestStatusData", "requestSettingsData",
                      "sendCommand" }
            /\ _connected /\ _writeChar # Null)
           => Len(sent) = 1
    /\ \A i \in 1..Len(sent) :
           CASE sent[i][2] = 4 ->
                    SubSeq(sent[i], 1, 6) = << 17, 4, 0, 0, 0, 80 >>
             [] sent[i][2] = 3 ->
                    SubSeq(sent[i], 1, 6) = << 17, 3, 0, 0, 0, 80 >>
             [] OTHER ->
                    /\ issued # << >>
                    /\ Len(sent) = 1
                    /\ SubSeq(sent[i], 1, 6) =
                           << 17, 6, 0, issued[1], issued[2] \div 256,
                              issued[2] % 256 >>

\* C17 witness: a command whose value has different high and low bytes
C17_Witness ==
    /\ called = "sendCommand"
    /\ issued = << 67, 1000 >>
    /\ Len(sent) = 1

\* a step in which notifyCallback() is entered with a notification
NotifyStep == rx.kind \in { "idle", "none" } /\ rx' # rx

\* C18: a notification shorter than 10 bytes, of any opcode, is returned from
\* without a decode, and the telemetry (with the settings-received flag and
\* the last-rendered snapshot in it), the connection flag, the link and the
\* handles are after the callback what they were before it.
C18_ShortNotificationDropped ==
    [][(NotifyStep /\ Len(rx'.payload) < 10)
           => /\ rx'.kind = "none"
              /\ UNCHANGED << _data, _connected, handles, linkUp, subscribed,
                              observed >>]_vars

\* C18 witness: a 9-byte settings notification was dropped after a status
\* had been decoded
C18_Witness ==
    /\ rx.kind = "none"
    /\ rx.payload = ShortSettings
    /\ _data.batteryPercent = 875
    /\ ~_data.settingsReceived

\* C19: a notification whose first two bytes are neither 0x1104 nor 0x1103 is
\* returned from without a decode; it changes no telemetry field, no
\* connection state, and counts as no failure.
C19_UnknownOpcodeIgnored ==
    [][(NotifyStep /\ Len(rx'.payload) >= 2
            /\ Opcode(rx'.payload) \notin { OPCODE_STATUS, OPCODE_SETTINGS })
           => /\ rx'.kind = "none"
              /\ UNCHANGED << _data, _connected, handles, linkUp, subscribed,
                              retryState, observed >>]_vars

\* C19 witness: a full-length notification of another opcode was ignored
\* after settings had been decoded
C19_Witness ==
    /\ rx.kind = "none"
    /\ rx.payload = OtherOpcode
    /\ _data.settingsReceived
    /\ _connected

\* the registers parseStatusData() and parseSettingsData() look up
DecoderRegisters ==
    { 3, 4, 6, 39, 22, 56, 41, 58, 59 }
        \cup { 27, 56, 57, 59, 60, 61, 62, 63, 66, 67, 68 }

\* the registers the peer put into a response
RegsOf(data) ==
    IF Opcode(data) = OPCODE_SETTINGS THEN RegsSettingsA ELSE RegsStatusA

\* C20: for the payload being decoded (10 bytes or more) and every register
\* the decoders look up, the lookup reads only positions below the payload
\* length, and it returns the register the peer sent when both of its bytes
\* are inside the payload and 0 otherwise.
C20_RegisterLookupInBounds ==
    Len(rx.payload) >= 10
        => \A r \in DecoderRegisters :
               /\ RegReads(rx.payload, r) \subseteq 0..(Len(rx.payload) - 1)
               /\ GetRegValue(rx.payload, r) =
                      IF 6 + 2 * r + 1 < Len(rx.payload)
                      THEN RegsOf(rx.payload)[r] ELSE 0
               /\ (6 + 2 * r + 1 < Len(rx.payload))
                      = (RegReads(rx.payload, r) = { 6 + 2 * r, 6 + 2 * r + 1 })

\* C20 witness: a status cut inside register 56 is being decoded; register 22
\* was read from the payload and register 56 was read as 0
C20_Witness ==
    /\ rx.kind = "status"
    /\ rx.payload = StatusCutIn56
    /\ rx.step > 6
    /\ _data.batteryVoltage = 4900
    /\ _data.batteryPercent = 0

\* a reading of whole units and tenths, in tenths; and of hundredths
Tenths(whole, tenth) == 10 * whole + tenth

Hundredths(whole, hundredth) == 100 * whole + hundredth

\* bit n of x
Bit(x, n) == (x \div Pow2(n)) % 2 = 1

\* the registers the peer encoded in a full-length status
SentRegs(data) ==
    CHOOSE regs \in SampleStatusRegs :
        data = Payload(OPCODE_STATUS, FullLength, regs)

\* C21: after a full-length status has been decoded, the ac, dc and total
\* input power are registers 3, 4 and 6, the output power is register 39, the
\* battery voltage is register 22 in hundredths of a volt (4900 is 49.0 V),
\* the battery percent is register 56 in tenths (875 is 87.5 %), the usb, dc
\* and ac flags are bits 9, 10 and 11 of register 41, and the minutes to full
\* and to empty are registers 58 and 59.
C21_StatusMapping ==
    (rx.kind = "done" /\ Opcode(rx.payload) = OPCODE_STATUS)
        => LET regs == SentRegs(rx.payload)
           IN  /\ _data.acInputPower = regs[3]
               /\ _data.dcInputPower = regs[4]
               /\ _data.inputPower = regs[6]
               /\ _data.outputPower = regs[39]
               /\ _data.batteryVoltage = regs[22]
               /\ _data.batteryPercent = regs[56]
               /\ regs[22] = 4900 => _data.batteryVoltage = Hundredths(49, 0)
               /\ regs[56] = 875 => _data.batteryPercent = Tenths(87, 5)
               /\ _data.usbActive = Bit(regs[41], 9)
               /\ _data.dcActive = Bit(regs[41], 10)
               /\ _data.acActive = Bit(regs[41], 11)
               /\ _data.minutesToFull = regs[58]
               /\ _data.minutesToEmpty = regs[59]

\* C21 witness: the status with register 56 = 875 and register 22 = 4900 has
\* been decoded
C21_Witness ==
    /\ rx.kind = "done"
    /\ Opcode(rx.payload) = OPCODE_STATUS
    /\ _data.batteryPercent = Tenths(87, 5)
    /\ _data.batteryVoltage = Hundredths(49, 0)
    /\ _data.outputPower = 150

\* C22: settingsReceived is false after construction; it changes only at
\* the last assignment of the decode of a settings notification (opcode
\* 0x1103, 10 bytes or more), and only to true; that decode always leaves it
\* true; so status notifications, connects and disconnects leave it alone.
C22_SettingsReceivedFlag ==
    /\ ~_data.settingsReceived
    /\ [][/\ (_data'.settingsReceived # _data.settingsReceived)
                => /\ rx.kind = "settings"
                   /\ rx' = RxIdle
                   /\ Opcode(rx.payload) = OPCODE_SETTINGS
                   /\ Len(rx.payload) >= 10
                   /\ _data'.settingsReceived
          /\ (rx.kind = "settings" /\ rx' = RxIdle)
                => _data'.settingsReceived]_vars

\* C22 witness: the flag is still set after a later status decode and a
\* disconnect
C22_Witness ==
    /\ _data.settingsReceived
    /\ _data.batteryPercent = 875
    /\ ~_connected
    /\ ~linkUp

\* C23: before the first completed decode of a status, hasSignificantChange()
\* of the client returns true.
C23_ChangeBeforeFirstStatus ==
    ~statusDecoded
        => HasSignificantChange(_data, _socThreshold, _powerThreshold)

\* thresholds given to PowerBankData::hasSignificantChange(): ints
SampleSocThresholds == { -1, 0, 1, 100, 1000 }

SamplePowerThresholds == { -1, 0, 5, 3000, 65536 }

\* C24: before the first markRefreshed(), hasSignificantChange() returns
\* true for the telemetry held, whatever it is, and every pair of thresholds.
C24_FreshDetectorReportsChange ==
    rendered = { }
        => \A soc \in SampleSocThresholds, power \in SamplePowerThresholds :
               HasSignificantChange(_data, soc, power)

\* C24 witness: statuses and settings were decoded and nothing was rendered
C24_Witness ==
    /\ rendered = { }
    /\ statusDecoded
    /\ _data.settingsReceived
    /\ _data.batteryPercent = 875

\* C25: when the battery percent held differs from the one rendered at the
\* last markRefreshed(), hasSignificantChange() returns true.
C25_AnyPercentChangeIsSignificant ==
    \A r \in rendered :
        r.batteryPercent # _data.batteryPercent
            => HasSignificantChange(_data, _socThreshold, _powerThreshold)

\* the status held differs from the rendered one in the input or the output
\* power and in nothing else
OnlyPowerDiffers(r, d) ==
    /\ r # Rendered(d)
    /\ [r EXCEPT !.inputPower = d.inputPower, !.outputPower = d.outputPower]
           = Rendered(d)

\* C26: when the status held differs from the rendered one only in input
\* or output power, hasSignificantChange() returns true exactly when one of
\* the two differs by more than the power threshold.
C26_PowerChangeAboveThreshold ==
    \A r \in rendered :
        OnlyPowerDiffers(r, _data)
            => (HasSignificantChange(_data, _socThreshold, _powerThreshold)
                    <=> \/ Abs(_data.inputPower - r.inputPower)
                               > _powerThreshold
                        \/ Abs(_data.outputPower - r.outputPower)
                               > _powerThreshold)

\* C27: when an output-active flag held differs from its value at the last
\* markRefreshed(), hasSignificantChange() returns true.
C27_OutputFlagChangeIsSignificant ==
    \A r \in rendered :
        (\/ r.usbActive # _data.usbActive
         \/ r.dcActive # _data.dcActive
         \/ r.acActive # _data.acActive)
            => HasSignificantChange(_data, _socThreshold, _powerThreshold)

\* the last-rendered snapshot of the change detector
Snapshot(d) ==
    << d.lastBatteryPercent, d.lastInputPower, d.lastOutputPower >>

\* C28: a step that changes the last-rendered snapshot is a call of
\* markRefreshed().
C28_SnapshotOnlyByMarkRefreshed ==
    [][Snapshot(_data') # Snapshot(_data) => called' = "markRefreshed"]_vars

\* C28 witness: the snapshot taken of a decoded status is still held after
\* a settings decode, an iteration of loop() and a disconnect
C28_Witness ==
    /\ Snapshot(_data) = << 875, 200, 150 >>
    /\ _data.settingsReceived
    /\ observed.batteryPercent = 875
    /\ ~_connected

Max(a, b) == IF a > b THEN a ELSE b

\* the 16-bit value field of a command frame
ValueField(frame) == frame[5] * 256 + frame[6]

\* the last step gave sendCommand() the register and the value, and while
\* connected it wrote one write-single frame that carries them
Wrote(reg, value) ==
    /\ issued = << reg, value >>
    /\ _connected
           => /\ Len(sent) = 1
              /\ SubSeq(sent[1], 1, 4) = << 17, 6, 0, reg >>
              /\ ValueField(sent[1]) = value
    /\ ~_connected => sent = << >>

\* C29: for every int argument, setChargeLimit() writes ten times the
\* argument brought into 60..100 to register 67, setDischargeLimit() ten
\* times the argument brought into 0..30 to register 66 and setLightMode()
\* the argument brought into 0..3 to register 27; while connected one frame
\* is sent, whatever the argument.
C29_LimitsAreClamped ==
    /\ called = "setChargeLimit"
           => Wrote(67, 10 * Min(Max(args[1], 60), 100))
    /\ called = "setDischargeLimit"
           => Wrote(66, 10 * Min(Max(args[1], 0), 30))
    /\ called = "setLightMode" => Wrote(27, Min(Max(args[1], 0), 3))

StandbySetters ==
    { "setScreenTimeout", "setSysStandby", "setACStandby", "setDCStandby",
      "setUSBStandby", "setScheduleCharge" }

\* C30: the value field of the frame a standby, timeout or schedule setter
\* sends is its argument, or 0 when the argument is negative.
C30_StandbyValueIsArgument ==
    called \in StandbySetters
        => /\ issued[2] = Max(args[1], 0)
           /\ \A i \in 1..Len(sent) : ValueField(sent[i]) = Max(args[1], 0)

\* the retry interval stated for a counter value: 60 s, 120 s, then 240 s
StatedInterval(cf) ==
    CASE cf = 0 -> Ms(60000)
      [] cf = 1 -> Ms(120000)
      [] OTHER -> Ms(240000)

\* this step is update() entering connectToDevice()
UpdateStartsAttempt ==
    /\ pc = "idle"
    /\ pc' = "connect_public"
    /\ caller' = "update"

\* C32: update() enters a connection attempt only when the client is
\* disconnected and strictly more than 60 s, 120 s or 240 s (by the counter:
\* 0, 1, 2 or more) have passed since the previous attempt of update()
\* started; lastReconnectAttempt is that start time, written by no other step.
C32_AttemptOnlyWhenDue ==
    [][/\ UpdateStartsAttempt
           => /\ ~_connected
              /\ Elapsed(now, lastReconnectAttempt)
                     > StatedInterval(consecutiveFailures)
              /\ lastReconnectAttempt' = now
       /\ lastReconnectAttempt' # lastReconnectAttempt
           => UpdateStartsAttempt]_vars

\* C32 witness: update() has entered an attempt with two failures counted and
\* a previous attempt of its own behind it
C32_Witness ==
    /\ pc = "connect_public"
    /\ caller = "update"
    /\ consecutiveFailures = 2
    /\ lastReconnectAttempt = now
    /\ now >= Ms(420000)

\* C33: the counter is the number of consecutive failed attempts since the
\* last success or boot, capped at 5: every return of connectToDevice(), from
\* startScan() as from update(), sets it to 0 on success and adds one (up to
\* 5) on failure, and no other step changes it.
C33_CounterCountsEveryAttempt ==
    [][IF attemptResult' = "none"
       THEN consecutiveFailures' = consecutiveFailures
       ELSE consecutiveFailures' =
                IF attemptResult' = "ok" THEN 0
                ELSE Min(consecutiveFailures + 1, MAX_FAILURES)]_vars

\* C34: isConnected() is true only while the service, the write
\* characteristic and the notify characteristic of the link are cached and
\* the subscription has been made.
C34_ConnectedOnlyWithHandles ==
    _connected
        => /\ _service # Null
           /\ _writeChar # Null
           /\ _notifyChar # Null
           /\ subscribed

\* C35: with no connection attempt running, isConnected() is not true while
\* the transport link is down.
C35_NoConnectedWithoutLink ==
    (_connected /\ pc \notin AttemptPhases) => linkUp

\* this step is toggleUSB(), toggleDC() or toggleAC()
ToggleStep == pc = "ui_toggle" /\ pc' = "idle"

\* the register stated for the toggled output
StatedToggleReg ==
    CASE uiSel = "usb" -> 24
      [] uiSel = "dc" -> 25
      [] uiSel = "ac" -> 26

\* the value stated for the toggled output: 0 when the decoded status shows
\* it active, 1 otherwise
StatedToggleValue ==
    CASE uiSel = "usb" -> IF _data.usbActive THEN 0 ELSE 1
      [] uiSel = "dc" -> IF _data.dcActive THEN 0 ELSE 1
      [] uiSel = "ac" -> IF _data.acActive THEN 0 ELSE 1

\* C37: a toggle issues a write of register 24 (USB), 25 (DC) or 26 (AC) with
\* the value 0 when the telemetry shows that output active and 1 otherwise,
\* leaves the telemetry as it was, and the frame it sends is fixed by the
\* output and that flag alone, so that a repeated toggle with no status
\* decoded in between sends the same bytes.
C37_ToggleWritesInverse ==
    [][ToggleStep
           => /\ issued' = << StatedToggleReg, StatedToggleValue >>
              /\ _data' = _data
              /\ sent' \in { << >>,
                            << Frame(<< 17, 6, 0, StatedToggleReg, 0,
                                        StatedToggleValue >>) >> }
              /\ (_connected /\ _writeChar # Null) => sent' # << >>]_vars

\* C37 witness: a toggle of the USB output has been sent while the decoded
\* status shows USB active, and the toggle can be repeated
C37_Witness ==
    /\ issued = << USB_TOGGLE, 0 >>
    /\ Len(sent) = 1
    /\ _data.usbActive
    /\ ENABLED UITouch

\* this step is an assignment of parseStatusData()
StatusDecodeStep == rx.kind = "status" /\ rx' # rx

\* this step is an assignment of parseSettingsData()
SettingsDecodeStep == rx.kind = "settings" /\ rx' # rx

\* C38: no assignment made while a Status notification is decoded changes a
\* settings field or the settings-received flag, none made while a Settings
\* notification is decoded changes a status field, and neither changes the
\* connection flag of the client or of the telemetry.
C38_DecodersKeepToTheirFields ==
    [][/\ StatusDecodeStep
           => /\ Proj(_data', SettingsFields) = Proj(_data, SettingsFields)
              /\ _data'.connected = _data.connected
              /\ _connected' = _connected
       /\ SettingsDecodeStep
           => /\ Proj(_data', StatusFields) = Proj(_data, StatusFields)
              /\ _data'.connected = _data.connected
              /\ _connected' = _connected]_vars

\* C38 witness: a settings response and then a status response have been
\* decoded to the end, and the values of both are in the telemetry
C38_Witness ==
    /\ rx = RxIdle
    /\ Proj(_data, SettingsFields)
           = Proj(ParseSettingsData(InitData, SettingsA), SettingsFields)
    /\ Proj(_data, StatusFields)
           = Proj(ParseStatusData(InitData, StatusA), StatusFields)
    /\ Proj(InitData, SettingsFields) # Proj(_data, SettingsFields)
    /\ Proj(InitData, StatusFields) # Proj(_data, StatusFields)

\* C36: in every state between operations and callbacks, that is in every
\* state but the one between the two writes of connectToDevice(), the flag
\* isConnected() returns equals the connected field getData() returns.
C36_FlagEqualsTelemetryFlag ==
    pc # "set_data_connected" => _connected = _data.connected

\* the time that has really passed between clock value last and now
TrueElapsed(last) == SinceOrigin(now) - SinceOrigin(last)

\* update() would fire the status poll in this state
StatusPollFires == ENABLED (UpdatePoll /\ _lastPoll' # _lastPoll)

\* update() would fire the settings poll in this state
SettingsPollFires ==
    ENABLED (UpdatePoll /\ _lastSettingsPoll' # _lastSettingsPoll)

\* C39: also when millis() has wrapped since the timer was taken, update()
\* fires the status poll exactly when at least 30 s have really passed since
\* the previous one, the settings poll exactly when at least 60 s have, and
\* starts a retry exactly when more than the backoff interval has passed
\* since the previous attempt started.
C39_TimersAcrossWrap ==
    /\ (pc = "idle" /\ _connected)
           => /\ StatusPollFires <=> TrueElapsed(_lastPoll) >= Ms(30000)
              /\ SettingsPollFires
                     <=> TrueElapsed(_lastSettingsPoll) >= Ms(60000)
    /\ (pc = "idle" /\ ~_connected /\ consecutiveFailures < MAX_FAILURES)
           => (ENABLED UpdateAttempt
                   <=> TrueElapsed(lastReconnectAttempt)
                           > StatedInterval(consecutiveFailures))

\* C39 witness: update() has entered a retry after the wrap, 70 s after its
\* previous attempt that started before the wrap, and the last status poll
\* was sent after the wrap, 30 s after the one sent before it
C39_Witness ==
    /\ pc = "connect_public"
    /\ caller = "update"
    /\ lastReconnectAttempt = now
    /\ now < WrapOrigin
    /\ SinceOrigin(now) = 7 * FineTickMs
    /\ statusAt < WrapOrigin
    /\ SinceOrigin(statusAt) = 4 * FineTickMs

\* initialized, disconnected, no attempt running and fewer than 5 failures
Recoverable ==
    /\ _initialized
    /\ ~_connected
    /\ pc = "idle"
    /\ consecutiveFailures < MAX_FAILURES

\* the clock of the model runs long enough for the longest retry interval
\* to pass
TimeRemains == now + RetryInterval(2) + TickMs <= MaxNow

=============================================================================
